---------------------------- MODULE Spec2Model ----------------------------
(***************************************************************************)
(* A model of src/service-worker.js: the cache store and its trimming,     *)
(* the request classifier, the three fetch strategies, the retry engine    *)
(* and the sync coordinator.                                               *)
(*                                                                         *)
(* Strings the code inspects (URL paths, host names, error messages) are   *)
(* sequences of tokens; String.includes is "occurs as a contiguous run of  *)
(* tokens" and String.endsWith is "the last token is".                     *)
(***************************************************************************)
EXTENDS Integers, Sequences, FiniteSets, TLC

\* ------------------------------------------------------------------ bounds

\* CACHE_CONFIG.MAX_ENTRIES is 50 in the source; the model runs the same code
\* with a small limit so that a store can be filled and overfilled.
MAX_ENTRIES == 1
\* Lifecycle events (fetch, message, install) handled in one behaviour.
MaxEvents == 2
\* Handlers and background tasks suspended at the same time.
MaxTasks == 2
\* Keys inserted into the store that trimCache is applied to (SpecTrim).
MaxKeys == 4
\* The largest maxRetries handed to retryFetch (SpecRetry).
MaxAttempts == 3
\* Items the client application ever queues (SpecSync).
MaxItems == 2
\* Sync triggers in one behaviour (SpecSync).
MaxDrains == 2

\* ------------------------------------------------------- program constants

CACHE_NAME == "parking-reminder-cache-v1"
RUNTIME_CACHE_NAME == "parking-reminder-runtime-v1"
NETWORK_TIMEOUT == 3000
\* retryFetch(..., 3) in syncParkingData
SYNC_MAX_RETRIES == 3

\* ------------------------------------------------------------------ strings

\* s.includes(p) on token sequences
Includes(s, p) ==
  \E i \in 0..(Len(s) - Len(p)) : \A j \in 1..Len(p) : s[i + j] = p[j]

\* s.endsWith(t) for a single token t
EndsWith(s, t) == Len(s) > 0 /\ s[Len(s)] = t

RECURSIVE Pow2(_)
Pow2(n) == IF n = 0 THEN 1 ELSE 2 * Pow2(n - 1)

\* ------------------------------------------------------------------ requests

SELF_HOST == <<"parking.example">>

MkUrl(h, p, q) == [scheme |-> "https", host |-> h, path |-> p, params |-> q]

U_ROOT  == MkUrl(SELF_HOST, <<"/">>, {})
U_PAGE  == MkUrl(SELF_HOST, <<"/", "history">>, {})
U_APPJS == MkUrl(SELF_HOST, <<"/", "app", ".js">>, {})
U_DATA  == MkUrl(SELF_HOST, <<"/api", "/spots">>, {})
U_LOGIN == MkUrl(SELF_HOST, <<"/api", "/login">>, {})
U_TOKEN == MkUrl(SELF_HOST, <<"/api", "/spots">>, {"token"})
U_CDN   == MkUrl(<<"cdn.jsdelivr.net">>, <<"/npm", "/lib", ".css">>, {})
U_XAPI  == MkUrl(<<"api.weather.example">>, <<"/v1", "/now">>, {})
U_INDEX == MkUrl(SELF_HOST, <<"/", "index", ".html">>, {})
U_MANIFEST == MkUrl(SELF_HOST, <<"/", "manifest", ".json">>, {})
U_SWJS  == MkUrl(SELF_HOST, <<"/", "service-worker", ".js">>, {})
U_EXT   == [scheme |-> "chrome-extension", host |-> <<"abcdef">>,
            path |-> <<"/", "content", ".js">>, params |-> {}]
NoUrl   == [scheme |-> "", host |-> <<>>, path |-> <<>>, params |-> {}]

\* the precache manifest
CACHE_ASSETS == << U_ROOT, U_INDEX, U_MANIFEST, U_SWJS >>

sensitivePaths == { <<"/api", "/login">>, <<"/api", "/auth">>, <<"/api", "/payment">> }
sensitiveParams == { "token", "password", "creditcard" }

isSensitiveUrl(url) ==
  \/ \E path \in sensitivePaths : Includes(url.path, path)
  \/ \E param \in sensitiveParams : param \in url.params

isSensitiveRequest(request) == isSensitiveUrl(request.url)

staticExtensions ==
  { ".js", ".css", ".json", ".png", ".jpg", ".jpeg", ".gif", ".svg", ".ico",
    ".woff", ".woff2", ".ttf", ".eot" }

isStaticAsset(request) ==
  \/ \E ext \in staticExtensions : EndsWith(request.url.path, ext)
  \/ Includes(request.url.host, <<"cdn.jsdelivr.net">>)
  \/ Includes(request.url.host, <<"cdn.tailwindcss.com">>)

MkReq(u, m, md) == [url |-> u, method |-> m, mode |-> md]

\* ------------------------------------------------------------------ cache store

\* A cache is the sequence of its entries in insertion order.
\* Cache.put replaces an entry of the same key and appends the new one.
CacheDelete(entries, url) == SelectSeq(entries, LAMBDA e : e.url # url)

CachePut(entries, url, resp, by) ==
  Append(CacheDelete(entries, url), [url |-> url, resp |-> resp, by |-> by])

CacheKeys(entries) == [i \in 1..Len(entries) |-> entries[i].url]

CacheHas(entries, url) == \E i \in 1..Len(entries) : entries[i].url = url

RECURSIVE DeleteAll(_, _)
DeleteAll(entries, victims) ==
  IF victims = <<>> THEN entries
  ELSE DeleteAll(CacheDelete(entries, Head(victims)), Tail(victims))

\* (a trim that evicts from the wrong end)
TrimVictimsNewest(keys, maxEntries) ==
  IF Len(keys) > maxEntries
  THEN SubSeq(keys, maxEntries + 1, Len(keys))
  ELSE <<>>

\* keys.slice(0, keys.length - maxEntries), taken when keys.length > maxEntries
TrimVictims(keys, maxEntries) ==
  IF Len(keys) > maxEntries
  THEN SubSeq(keys, 1, Len(keys) - maxEntries)
  ELSE <<>>

\* trimCache run without interruption
trimCache(entries, maxEntries) ==
  DeleteAll(entries, TrimVictims(CacheKeys(entries), maxEntries))

\* ------------------------------------------------------------------ retry engine

Statuses == { 200, 204, 400, 404, 408, 429, 500, 503 }

MkErr(n, m) == [isError |-> TRUE, name |-> n, message |-> m]

Thrown ==
  { MkErr("TypeError", <<"Failed", "to", "fetch">>),
    MkErr("AbortError", <<"The", "operation", "was", "aborted">>),
    MkErr("NetworkError", <<"A", "network", "error", "occurred">>),
    MkErr("TimeoutError", <<"signal", "timed", "out">>),
    MkErr("Error", <<"request", "timeout">>),
    [isError |-> FALSE, name |-> "", message |-> <<>>] }

Outcomes ==
  [kind : {"response"}, status : Statuses, err : {MkErr("", <<>>)}]
    \cup [kind : {"throw"}, status : {0}, err : Thrown]

ResponseOk(status) == status >= 200 /\ status <= 299

isRetryableStatus(status) == status >= 500 \/ status = 408

isRetryableThrown(err) ==
  /\ err.isError
  /\ \/ err.name = "NetworkError"
     \/ err.name = "AbortError"
     \/ Includes(err.message, <<"network">>)
     \/ Includes(err.message, <<"timeout">>)

\* isRetryableError applied to what an attempt produced: the status of a
\* response (a number) or the value thrown
isRetryableError(o) ==
  IF o.kind = "response" THEN isRetryableStatus(o.status)
  ELSE isRetryableThrown(o.err)

CallEv == [ev |-> "call", ms |-> 0]
SleepEv(attempt) == [ev |-> "sleep", ms |-> Pow2(attempt) * 1000]

RetryIdle ==
  [pc |-> "idle", attempt |-> 0, maxRetries |-> 0, log |-> <<>>,
   outcomes |-> <<>>, result |-> FALSE]

\* entering the for loop: the first fetch is issued at once
retryFetchStart(maxRetries) ==
  [pc |-> "awaitFetch", attempt |-> 1, maxRetries |-> maxRetries,
   log |-> <<CallEv>>, outcomes |-> <<>>, result |-> FALSE]

RetryDone(r, o, res) ==
  [r EXCEPT !.pc = "done", !.outcomes = Append(@, o), !.result = res]

RetrySleep(r, o) ==
  [r EXCEPT !.pc = "awaitSleep", !.outcomes = Append(@, o),
            !.log = Append(@, SleepEv(r.attempt))]

\* the next iteration of the loop, entered without a delay
RetryNextIteration(r, o) ==
  IF r.attempt + 1 <= r.maxRetries
  THEN [r EXCEPT !.attempt = @ + 1, !.outcomes = Append(@, o),
                 !.log = Append(@, CallEv)]
  ELSE RetryDone(r, o, FALSE)

\* (a retry loop that never backs off)
retryFetchSettleNoBackoff(r, o) ==
  IF o.kind = "response" /\ ResponseOk(o.status) THEN RetryDone(r, o, TRUE)
  ELSE RetryNextIteration(r, o)

\* the awaited fetch of attempt r.attempt settles with o
retryFetchSettle(r, o) ==
  IF o.kind = "response"
  THEN IF ResponseOk(o.status) THEN RetryDone(r, o, TRUE)
       ELSE IF r.attempt < r.maxRetries /\ isRetryableError(o)
            THEN RetrySleep(r, o)
            ELSE RetryDone(r, o, FALSE)
  ELSE IF r.attempt < r.maxRetries /\ isRetryableError(o)
       THEN RetrySleep(r, o)
       ELSE RetryNextIteration(r, o)

\* the backoff timer fires: continue with the next attempt
retryFetchWake(r) ==
  [r EXCEPT !.pc = "awaitFetch", !.attempt = @ + 1, !.log = Append(@, CallEv)]

NumCalls(r) == Cardinality({ i \in 1..Len(r.log) : r.log[i].ev = "call" })

\* ------------------------------------------------------------------ notifications

\* A property of a parsed payload is absent (reads as undefined), null, or a
\* value. The texts of the source are named, not spelled out.
Undefined == "<undefined>"
Null == "<null>"

Falsy(v) == v \in { Undefined, Null, "" }

\* a || b
OrElse(a, b) == IF Falsy(a) THEN b ELSE a

DEFAULT_TITLE == "default-title"
DEFAULT_BODY == "default-body"
DEFAULT_ICON == "default-icon"
MINIMAL_BODY == "minimal-body"

\* an actions property: absent, null, a list of {action, title}, or a value
\* showNotification does not accept
NoActions == [kind |-> Undefined, items |-> <<>>]
NullActions == [kind |-> Null, items |-> <<>>]
MalformedActions == [kind |-> "malformed", items |-> <<>>]
ActionList(items) == [kind |-> "list", items |-> items]

DEFAULT_ACTIONS == ActionList(<< "view", "extend", "dismiss" >>)

\* the data property of a payload: absent, or an object with some of url, id, action
NoData == [present |-> FALSE, url |-> Undefined, id |-> Undefined, action |-> Undefined]

EmptyInput ==
  [title |-> Undefined, body |-> Undefined, icon |-> Undefined, badge |-> Undefined,
   url |-> Undefined, id |-> Undefined, action |-> Undefined, tag |-> Undefined,
   actions |-> NoActions, data |-> NoData]

\* lines 123-128
defaultData ==
  [EmptyInput EXCEPT !.title = DEFAULT_TITLE, !.body = DEFAULT_BODY,
                     !.icon = DEFAULT_ICON, !.badge = DEFAULT_ICON]

ScalarFields == { "title", "body", "icon", "badge", "url", "id", "action", "tag" }

\* (a merge that drops the defaults)
SpreadInputOnly(defaults, data) == data

\* { ...defaults, ...data }: every property data has, null included, wins
Spread(defaults, data) ==
  [k \in DOMAIN defaults |->
     IF k \in ScalarFields
     THEN IF data[k] # Undefined THEN data[k] ELSE defaults[k]
     ELSE IF k = "actions"
     THEN IF data[k].kind # Undefined THEN data[k] ELSE defaults[k]
     ELSE IF data[k].present THEN data[k] ELSE defaults[k]]

\* Math.random().toString(36).substr(2, 9)
GeneratedIds == { "rnd-1", "rnd-2" }

\* lines 131-154: the title and options handed to showNotification;
\* generated is the identifier Math.random yields
buildNotification(data, generated) ==
  LET mergedData == Spread(defaultData, data)
      own == mergedData.data
      overridden(k, v) == IF own.present /\ own[k] # Undefined THEN own[k] ELSE v
  IN [title |-> mergedData.title,
      body |-> mergedData.body,
      icon |-> mergedData.icon,
      badge |-> mergedData.badge,
      data |-> [url |-> overridden("url", OrElse(mergedData.url, "/")),
                timestamp |-> "now",
                id |-> overridden("id", OrElse(mergedData.id, generated)),
                action |-> overridden("action", OrElse(mergedData.action, "default"))],
      actions |-> IF Falsy(mergedData.actions.kind) THEN DEFAULT_ACTIONS
                  ELSE mergedData.actions,
      tag |-> OrElse(mergedData.tag, "parking-reminder")]

\* lines 162-166
minimalNotification ==
  [title |-> DEFAULT_TITLE, body |-> MINIMAL_BODY, icon |-> DEFAULT_ICON,
   badge |-> Undefined,
   data |-> [url |-> Undefined, timestamp |-> Undefined, id |-> Undefined,
             action |-> Undefined],
   actions |-> NoActions, tag |-> "parking-error"]

NoNotification ==
  [title |-> "", body |-> "", icon |-> "", badge |-> "",
   data |-> [url |-> "", timestamp |-> "", id |-> "", action |-> ""],
   actions |-> NoActions, tag |-> ""]

\* showNotification rejects a notification whose actions are not a list
Showable(n) == n.actions.kind \in { "list", Undefined }

\* ------------------------------------------------------------------ state

VARIABLES
  store,      \* cache name -> entries in insertion order
  installed,  \* the install event has been handled
  tasks,      \* handlers and background tasks suspended at an await
  nEvents,    \* fetch and message events dispatched so far
  responded,  \* the response the latest step settled respondWith with, if any
  tc,         \* the trimCache call under test: keys before it, its maxEntries
  rf,         \* the retryFetch call under test
  storageAvailable, \* whether localStorage can be reached from the worker
  queue,      \* the value stored under 'pendingSyncs'
  nItems,     \* items the client application has queued so far
  drains,     \* the syncParkingData calls, by trigger
  finished,   \* the syncParkingData call that returned in the latest step, if any
  accepted,   \* items of batches the remote endpoint answered with 2xx
  removed,    \* items the coordinator removed from the queue
  notices,    \* SYNC_COMPLETED notices posted, by client
  push,       \* the push handler: payload, notification built, show attempts
  click,      \* the notificationclick handler: target, windows, what it did
  mq,         \* message events received, each with the replies posted for it
  act         \* the activate event: its position, its deletions, its block scope

fetchVars == <<installed, tasks, nEvents, responded>>
cacheVars == <<store, tc, fetchVars>>
syncVars == <<storageAvailable, queue, nItems, drains, finished, accepted, removed, notices>>
eventVars == <<push, click, mq, act>>
vars ==
  <<store, installed, tasks, nEvents, responded, tc, rf, storageAvailable, queue,
    nItems, drains, finished, accepted, removed, notices, eventVars>>

CacheNames == { CACHE_NAME, RUNTIME_CACHE_NAME }

Urls == { U_ROOT, U_PAGE, U_APPJS, U_DATA, U_LOGIN, U_TOKEN, U_CDN, U_XAPI }

BasicOk == [status |-> 200, type |-> "basic"]

EmptyStore == [n \in CacheNames |-> <<>>]

NoResp == [status |-> 0, type |-> "error"]
NoResult == [kind |-> "none", resp |-> NoResp, from |-> NoUrl, body |-> ""]
NoNet == [kind |-> "none", resp |-> NoResp]
NoResponse ==
  [valid |-> FALSE, id |-> 0, req |-> MkReq(NoUrl, "", ""), strategy |-> "",
   net |-> NoNet, result |-> NoResult, lookups |-> 0, writes |-> 0]

FetchIdle ==
  /\ installed = FALSE
  /\ tasks = {}
  /\ nEvents = 0
  /\ responded = NoResponse
TcIdle == [done |-> FALSE, before |-> <<>>, maxEntries |-> 0]

Clients == { "window1", "window2" }

DrainIds == 1..MaxDrains

DrainIdle == [pc |-> "idle", batch |-> <<>>, r |-> RetryIdle, result |-> FALSE]

NoFinished == [valid |-> FALSE, d |-> 0, drain |-> DrainIdle]

\* a call that has returned keeps only its result
Returned(D) == [pc |-> "done", batch |-> <<>>, r |-> RetryIdle, result |-> D.result]

Absent == [kind |-> "absent", items |-> <<>>]

SyncIdle ==
  /\ storageAvailable = TRUE
  /\ queue = Absent
  /\ nItems = 0
  /\ drains = [d \in DrainIds |-> DrainIdle]
  /\ finished = NoFinished
  /\ accepted = {}
  /\ removed = {}
  /\ notices = [c \in Clients |-> 0]

PushIdle ==
  [pc |-> "idle", kind |-> "", input |-> EmptyInput, built |-> NoNotification,
   attempts |-> <<>>, shown |-> <<>>, rejected |-> FALSE]

ClickIdle ==
  [pc |-> "idle", action |-> "", data |-> [url |-> Undefined, id |-> Undefined],
   urlToOpen |-> <<>>, clientList |-> <<>>, target |-> "", log |-> <<>>]

MqIdle == <<>>

\* a binding of the block that line 76 opens, before its declaration has run
Uninitialized == "<uninitialized>"

ActIdle ==
  [pc |-> "idle", before |-> <<>>, pending |-> {}, rejected |-> {}, error |-> "",
   clients |-> Uninitialized, claimed |-> FALSE, updated |-> {}]

EventIdle == push = PushIdle /\ click = ClickIdle /\ mq = MqIdle /\ act = ActIdle

\* ------------------------------------------------------------------ SpecTrim
\* trimCache applied once to a store built by inserts of distinct keys.

TrimInit ==
  /\ store = EmptyStore /\ FetchIdle /\ tc = TcIdle /\ rf = RetryIdle /\ SyncIdle
  /\ EventIdle

TrimInsert ==
  /\ ~tc.done
  /\ Len(store[RUNTIME_CACHE_NAME]) < MaxKeys
  /\ \E u \in Urls :
       /\ ~CacheHas(store[RUNTIME_CACHE_NAME], u)
       /\ store' = [store EXCEPT ![RUNTIME_CACHE_NAME] = CachePut(@, u, BasicOk, "test")]
  /\ UNCHANGED <<fetchVars, tc, rf, syncVars, eventVars>>

TrimCall ==
  /\ ~tc.done
  /\ \E maxEntries \in 0..MaxKeys :
       /\ tc' = [done |-> TRUE, maxEntries |-> maxEntries,
                 before |-> CacheKeys(store[RUNTIME_CACHE_NAME])]
       /\ store' = [store EXCEPT ![RUNTIME_CACHE_NAME] = trimCache(@, maxEntries)]
  /\ UNCHANGED <<fetchVars, rf, syncVars, eventVars>>

TrimNext == TrimInsert \/ TrimCall

SpecTrim == TrimInit /\ [][TrimNext]_vars

\* ------------------------------------------------------------------ SpecRetry
\* One retryFetch call against an endpoint that answers each attempt freely.

RetryInit ==
  /\ store = EmptyStore /\ FetchIdle /\ tc = TcIdle /\ rf = RetryIdle /\ SyncIdle
  /\ EventIdle

RetryBegin ==
  /\ rf.pc = "idle"
  /\ \E maxRetries \in 1..MaxAttempts : rf' = retryFetchStart(maxRetries)
  /\ UNCHANGED <<cacheVars, syncVars, eventVars>>

RetryFetchSettles ==
  /\ rf.pc = "awaitFetch"
  /\ \E o \in Outcomes : rf' = retryFetchSettle(rf, o)
  /\ UNCHANGED <<cacheVars, syncVars, eventVars>>

RetryTimerFires ==
  /\ rf.pc = "awaitSleep"
  /\ rf' = retryFetchWake(rf)
  /\ UNCHANGED <<cacheVars, syncVars, eventVars>>

RetryNext == RetryBegin \/ RetryFetchSettles \/ RetryTimerFires

SpecRetry == RetryInit /\ [][RetryNext]_vars


\* ------------------------------------------------------------------ SpecSync
\* The pending queue, the client application that appends to it, and the
\* syncParkingData calls started by sync events and SYNC_NOW messages.
\*
\* localStorage is either reachable from the worker or not, for the whole
\* behaviour: Storage.getItem and Storage.removeItem do not throw by
\* themselves, only the lookup of localStorage does, and it does so alike at
\* lines 531 and 565. The stored text may fail JSON.parse.

Range(seq) == { seq[i] : i \in 1..Len(seq) }

Corrupt == [kind |-> "corrupt", items |-> <<>>]

SyncOutcomes ==
  { o \in Outcomes :
      \/ o.kind = "response" /\ o.status \in { 200, 404, 503 }
      \/ o.kind = "throw" /\ o.err.name = "TypeError" }

\* lines 529-538: a failed read or parse leaves pendingSyncs = []
ReadPending(avail, q) ==
  IF avail /\ q.kind = "json" THEN q.items ELSE <<>>

\* syncParkingData up to its first suspension (the fetch inside retryFetch)
syncParkingDataStart(avail, q) ==
  LET pendingSyncs == ReadPending(avail, q)
  IN IF Len(pendingSyncs) = 0
     THEN [pc |-> "done", batch |-> <<>>, r |-> RetryIdle, result |-> TRUE]
     ELSE [pc |-> "retry", batch |-> pendingSyncs,
           r |-> retryFetchStart(SYNC_MAX_RETRIES), result |-> FALSE]

\* (a drain that clears the queue whatever retryFetch returned)
SyncClearsAlways(syncSuccess) == TRUE

\* line 561: the queue is cleared when retryFetch returned true
SyncClears(syncSuccess) == syncSuccess

SyncInit ==
  /\ store = EmptyStore /\ FetchIdle /\ tc = TcIdle /\ rf = RetryIdle
  /\ EventIdle
  /\ storageAvailable \in BOOLEAN
  /\ queue \in { Absent, Corrupt }
  /\ nItems = 0
  /\ drains = [d \in DrainIds |-> DrainIdle]
  /\ finished = NoFinished
  /\ accepted = {}
  /\ removed = {}
  /\ notices = [c \in Clients |-> 0]

\* the client application appends an item to the stored queue
ClientEnqueue ==
  /\ nItems < MaxItems
  /\ queue.kind # "corrupt"
  /\ nItems' = nItems + 1
  /\ queue' = [kind |-> "json", items |-> Append(queue.items, nItems + 1)]
  /\ finished' = NoFinished
  /\ UNCHANGED <<cacheVars, rf, eventVars, storageAvailable, drains, accepted, removed, notices>>

\* syncParkingData is called: it runs to its return or to its first await
StartDrain(d) ==
  /\ drains[d].pc = "idle"
  /\ \A e \in DrainIds : e < d => drains[e].pc # "idle"
  /\ LET D == syncParkingDataStart(storageAvailable, queue)
     IN IF D.pc = "done"
        THEN /\ drains' = [drains EXCEPT ![d] = Returned(D)]
             /\ finished' = [valid |-> TRUE, d |-> d, drain |-> D]
        ELSE /\ drains' = [drains EXCEPT ![d] = D]
             /\ finished' = NoFinished

\* a 'sync' event calls syncParkingData
SyncTrigger(d) ==
  /\ StartDrain(d)
  /\ UNCHANGED <<cacheVars, rf, eventVars, storageAvailable, queue, nItems, accepted, removed, notices>>

\* the POST to /api/sync of the current attempt settles; when retryFetch
\* returns, syncParkingData runs on to its next suspension (lines 561-571)
DrainFetchSettles(d, o) ==
  /\ drains[d].pc = "retry"
  /\ drains[d].r.pc = "awaitFetch"
  /\ LET r2 == retryFetchSettle(drains[d].r, o)
         ok == o.kind = "response" /\ ResponseOk(o.status)
     IN /\ accepted' = IF ok THEN accepted \cup Range(drains[d].batch) ELSE accepted
        /\ IF r2.pc = "done"
           THEN /\ IF r2.result
                   THEN /\ drains' = [drains EXCEPT ![d].r = r2, ![d].pc = "notify"]
                        /\ finished' = NoFinished
                   ELSE /\ drains' = [drains EXCEPT ![d] = Returned(@)]
                        /\ finished' = [valid |-> TRUE, d |-> d,
                                        drain |-> [drains[d] EXCEPT !.r = r2, !.pc = "done"]]
                /\ IF SyncClears(r2.result)
                   THEN queue' = Absent /\ removed' = removed \cup Range(queue.items)
                   ELSE UNCHANGED <<queue, removed>>
           ELSE /\ drains' = [drains EXCEPT ![d].r = r2]
                /\ finished' = NoFinished
                /\ UNCHANGED <<queue, removed>>
  /\ UNCHANGED <<cacheVars, rf, eventVars, storageAvailable, nItems, notices>>

\* the backoff timer of a drain fires
DrainTimerFires(d) ==
  /\ drains[d].pc = "retry"
  /\ drains[d].r.pc = "awaitSleep"
  /\ drains' = [drains EXCEPT ![d].r = retryFetchWake(@)]
  /\ finished' = NoFinished
  /\ UNCHANGED <<cacheVars, rf, eventVars, storageAvailable, queue, nItems, accepted, removed, notices>>

\* clients.matchAll() resolves: SYNC_COMPLETED goes to every client, return true
DrainNotify(d) ==
  /\ drains[d].pc = "notify"
  /\ notices' = [c \in Clients |-> notices[c] + 1]
  /\ drains' = [drains EXCEPT ![d] = Returned([@ EXCEPT !.result = TRUE])]
  /\ finished' = [valid |-> TRUE, d |-> d,
                  drain |-> [drains[d] EXCEPT !.pc = "done", !.result = TRUE]]
  /\ UNCHANGED <<cacheVars, rf, eventVars, storageAvailable, queue, nItems, accepted, removed>>

SyncNext ==
  \/ ClientEnqueue
  \/ \E d \in DrainIds : SyncTrigger(d)
  \/ \E d \in DrainIds : \E o \in SyncOutcomes : DrainFetchSettles(d, o)
  \/ \E d \in DrainIds : DrainTimerFires(d)
  \/ \E d \in DrainIds : DrainNotify(d)

SpecSync == SyncInit /\ [][SyncNext]_vars

\* ------------------------------------------------------------------ Spec
\* The install event, fetch events and CACHE_ASSETS messages. A handler is a
\* task that moves from one await to the next; several may be suspended at
\* once. A task that outlives its response (the background refresh of the
\* cache-first strategy, the cache write of the passthrough branch) stays in
\* tasks with bg = TRUE.

\* what fetch() of a URL can produce
NetResponses(url) ==
  IF url.host = SELF_HOST
  THEN { [status |-> 200, type |-> "basic"], [status |-> 404, type |-> "basic"] }
  ELSE { [status |-> 200, type |-> "cors"], [status |-> 0, type |-> "opaque"] }

\* "fail" is a rejected fetch: the network is unreachable or, in
\* networkFirstWithTimeout, the timer aborted the request (both reach the
\* same catch block, which tells them apart only in what it logs)
NetOutcomes(url) ==
  { [kind |-> "response", resp |-> r] : r \in NetResponses(url) }
    \cup { [kind |-> "fail", resp |-> NoResp] }

FetchRequests ==
  { MkReq(U_ROOT, "GET", "navigate"),
    MkReq(U_PAGE, "GET", "navigate"),
    MkReq(U_MANIFEST, "GET", "no-cors"),
    MkReq(U_CDN, "GET", "cors"),
    MkReq(U_DATA, "GET", "cors"),
    MkReq(U_XAPI, "GET", "cors"),
    MkReq(U_DATA, "POST", "cors"),
    MkReq(U_LOGIN, "GET", "navigate"),
    MkReq(U_TOKEN, "GET", "cors"),
    MkReq(U_EXT, "GET", "no-cors") }

\* URLs a CACHE_ASSETS message may list
PinUrls == { U_APPJS, U_TOKEN }

\* caches.match(url): the first cache, in creation order, that holds the key
cachesMatch(st, url) ==
  LET hit(name) == { i \in 1..Len(st[name]) : st[name][i].url = url }
  IN IF hit(CACHE_NAME) # {}
     THEN [hit |-> TRUE, resp |-> st[CACHE_NAME][CHOOSE i \in hit(CACHE_NAME) : TRUE].resp]
     ELSE IF hit(RUNTIME_CACHE_NAME) # {}
     THEN [hit |-> TRUE,
           resp |-> st[RUNTIME_CACHE_NAME][CHOOSE i \in hit(RUNTIME_CACHE_NAME) : TRUE].resp]
     ELSE [hit |-> FALSE, resp |-> NoResp]

NetworkResult(resp) ==
  [kind |-> "network", resp |-> resp, from |-> NoUrl, body |-> "network"]
CachedResult(resp, url) ==
  [kind |-> "cache", resp |-> resp, from |-> url, body |-> "cached"]
UndefinedResult ==
  [kind |-> "undefined", resp |-> NoResp, from |-> NoUrl, body |-> ""]
\* new Response(text, { status: 503, ... 'Content-Type': 'text/plain' })
Synthetic503(text) ==
  [kind |-> "synthetic", resp |-> [status |-> 503, type |-> "default"],
   from |-> NoUrl, body |-> text]

\* what caches.match resolved with, as a response to hand over
MatchResult(st, url) ==
  LET m == cachesMatch(st, url)
  IN IF m.hit THEN CachedResult(m.resp, url) ELSE UndefinedResult

\* (a listener that lets sensitive GET requests through to the strategies)
dispatchNoSensitiveCheck(request) ==
  IF request.method # "GET" \/ request.url.scheme = "chrome-extension" THEN "bypass"
  ELSE IF request.mode = "navigate" THEN "nav"
  ELSE IF isStaticAsset(request) THEN "static"
  ELSE "pass"

\* the branch the fetch listener takes
dispatch(request) ==
  IF request.method # "GET" \/ request.url.scheme = "chrome-extension" THEN "bypass"
  ELSE IF isSensitiveRequest(request) THEN "sensitive"
  ELSE IF request.mode = "navigate" THEN "nav"
  ELSE IF isStaticAsset(request) THEN "static"
  ELSE "pass"

\* a cache operation (open, put, keys, delete) resolves or rejects
StorageOutcomes == { "stored", "failed" }

\* fetchAndCache line 333: the response is cached when ok and basic
facValid(resp) == ResponseOk(resp.status) /\ resp.type = "basic"

NewTask(id, strategy, pc, req) ==
  [id |-> id, strategy |-> strategy, pc |-> pc, req |-> req, resp |-> NoResp,
   net |-> NoNet, keys |-> <<>>, lookups |-> 0, writes |-> 0, bg |-> FALSE]

\* tasks are told apart by the smallest number no suspended task carries
FreeId == CHOOSE i \in 1..(MaxTasks + 1) :
            /\ \A t \in tasks : t.id # i
            /\ \A j \in 1..(i - 1) : \E t \in tasks : t.id = j

Settled(t, result) ==
  [valid |-> TRUE, id |-> t.id, req |-> t.req, strategy |-> t.strategy,
   net |-> t.net, result |-> result, lookups |-> t.lookups, writes |-> t.writes]

\* the task ends and, unless it runs in the background, its result settles
\* the promise given to respondWith
Finish(t, tEnd, result) ==
  /\ tasks' = tasks \ {t}
  /\ responded' = IF t.bg THEN NoResponse ELSE Settled(tEnd, result)

\* the task moves on to its next await
Continue(t, t2) ==
  /\ tasks' = (tasks \ {t}) \cup {t2}
  /\ responded' = NoResponse

\* the response is handed over while the task runs on in the background
RespondAndContinue(t, tEnd, result, t2) ==
  /\ tasks' = (tasks \ {t}) \cup {[t2 EXCEPT !.bg = TRUE]}
  /\ responded' = Settled(tEnd, result)

RuntimePut(t) ==
  store' = [store EXCEPT ![RUNTIME_CACHE_NAME] =
              CachePut(@, t.req.url, t.resp, t.strategy)]

Init ==
  /\ store = EmptyStore /\ FetchIdle /\ tc = TcIdle /\ rf = RetryIdle /\ SyncIdle
  /\ EventIdle

\* install: cache.add of every manifest entry, failures skipped. The network
\* serves all of them (installed online) or none of them (installed offline).
InstallServed == { Range(CACHE_ASSETS), {} }

RECURSIVE AddAll(_, _, _)
AddAll(entries, assets, served) ==
  IF assets = <<>> THEN entries
  ELSE AddAll(IF Head(assets) \in served
              THEN CachePut(entries, Head(assets), BasicOk, "install")
              ELSE entries,
              Tail(assets), served)

Install ==
  /\ ~installed
  /\ installed' = TRUE
  /\ \E served \in InstallServed :
       store' = [store EXCEPT ![CACHE_NAME] = AddAll(@, CACHE_ASSETS, served)]
  /\ responded' = NoResponse
  /\ UNCHANGED <<tasks, nEvents, tc, rf, syncVars, eventVars>>

\* a fetch event: the listener picks the branch and runs it to its first await
FetchEvent ==
  /\ installed
  /\ nEvents < MaxEvents
  /\ Cardinality(tasks) < MaxTasks
  /\ \E req \in FetchRequests :
       LET strategy == dispatch(req)
           pc0 == IF strategy = "static" THEN "match" ELSE "fetch"
       IN tasks' = tasks \cup { NewTask(FreeId, strategy, pc0, req) }
  /\ nEvents' = nEvents + 1
  /\ responded' = NoResponse
  /\ UNCHANGED <<store, installed, tc, rf, syncVars, eventVars>>

\* a CACHE_ASSETS message: one fetch per listed URL, none awaited
PinAssets ==
  /\ installed
  /\ nEvents < MaxEvents
  /\ \E assets \in SUBSET PinUrls :
       /\ assets # {}
       /\ Cardinality(tasks) + Cardinality(assets) <= MaxTasks
       /\ tasks' = tasks \cup
            { [NewTask(FreeId, "pin", "fetch", MkReq(u, "GET", "cors"))
                 EXCEPT !.bg = TRUE] : u \in assets }
  /\ nEvents' = nEvents + 1
  /\ responded' = NoResponse
  /\ UNCHANGED <<store, installed, tc, rf, syncVars, eventVars>>

\* lines 377-402: fetch(request).catch(() => new Response(..., 503))
BypassSettles(t, o) ==
  /\ t.strategy \in { "bypass", "sensitive" }
  /\ t.pc = "fetch"
  /\ LET t2 == [t EXCEPT !.net = o]
     IN Finish(t, t2, IF o.kind = "response" THEN NetworkResult(o.resp)
                   ELSE Synthetic503(IF t.strategy = "sensitive"
                                     THEN "sensitive-request-failed"
                                     ELSE "network-request-failed"))
  /\ UNCHANGED <<store, installed, nEvents, tc, rf, syncVars, eventVars>>

\* networkFirstWithTimeout: the fetch settles, or the timeout aborts it
NavFetchSettles(t, o) ==
  /\ t.strategy = "nav"
  /\ t.pc = "fetch"
  /\ IF o.kind = "response" /\ ResponseOk(o.resp.status)
     THEN Continue(t, [t EXCEPT !.net = o, !.resp = o.resp, !.pc = "put"])
     ELSE Continue(t, [t EXCEPT !.net = o, !.pc = "fallbackOwn"])
  /\ UNCHANGED <<store, installed, nEvents, tc, rf, syncVars, eventVars>>

\* line 302: the clone is put into the runtime cache, then the response
\* returned; a put that rejects is caught at line 309 and the cache is asked
NavPut(t, s) ==
  /\ t.strategy = "nav"
  /\ t.pc = "put"
  /\ IF s = "stored"
     THEN /\ RuntimePut(t)
          /\ Finish(t, [t EXCEPT !.writes = @ + 1], NetworkResult(t.resp))
     ELSE /\ UNCHANGED store
          /\ Continue(t, [t EXCEPT !.pc = "fallbackOwn"])
  /\ UNCHANGED <<installed, nEvents, tc, rf, syncVars, eventVars>>

\* lines 308/316: await caches.match(request) || ...
NavFallbackOwn(t) ==
  /\ t.strategy = "nav"
  /\ t.pc = "fallbackOwn"
  /\ LET m == cachesMatch(store, t.req.url)
         t2 == [t EXCEPT !.lookups = @ + 1]
     IN IF m.hit
        THEN Finish(t, t2, CachedResult(m.resp, t.req.url))
        ELSE Continue(t, [t2 EXCEPT !.pc = "fallbackRoot"])
  /\ UNCHANGED <<store, installed, nEvents, tc, rf, syncVars, eventVars>>

\* lines 308/316: ... || await caches.match('/')
NavFallbackRoot(t) ==
  /\ t.strategy = "nav"
  /\ t.pc = "fallbackRoot"
  /\ Finish(t, [t EXCEPT !.lookups = @ + 1], MatchResult(store, U_ROOT))
  /\ UNCHANGED <<store, installed, nEvents, tc, rf, syncVars, eventVars>>

\* cacheFirstWithUpdate: caches.match(request) resolves; fetchAndCache is
\* entered (in the background on a hit) and issues its fetch
StaticMatch(t) ==
  /\ t.strategy = "static"
  /\ t.pc = "match"
  /\ LET m == cachesMatch(store, t.req.url)
         t2 == [t EXCEPT !.lookups = @ + 1, !.pc = "facFetch"]
     IN IF m.hit
        THEN RespondAndContinue(t, t2, CachedResult(m.resp, t.req.url), t2)
        ELSE Continue(t, t2)
  /\ UNCHANGED <<store, installed, nEvents, tc, rf, syncVars, eventVars>>

\* fetchAndCache: the fetch settles (lines 324-335, 348-351)
FacFetchSettles(t, o) ==
  /\ t.strategy = "static"
  /\ t.pc = "facFetch"
  /\ IF o.kind # "response"
     THEN IF t.bg THEN Finish(t, t, NoResult)
          ELSE Continue(t, [t EXCEPT !.pc = "rootFallback"])
     ELSE IF isSensitiveRequest(t.req) \/ ~facValid(o.resp)
          THEN Finish(t, [t EXCEPT !.net = o], NetworkResult(o.resp))
          ELSE Continue(t, [t EXCEPT !.resp = o.resp, !.pc = "facPut"])
  /\ UNCHANGED <<store, installed, nEvents, tc, rf, syncVars, eventVars>>

\* fetchAndCache lines 341-342, then trimCache is entered; a put that
\* rejects is rethrown at line 350: the background call swallows it (line
\* 268), the awaited call lands in the catch of cacheFirstWithUpdate
FacPut(t, s) ==
  /\ t.strategy = "static"
  /\ t.pc = "facPut"
  /\ IF s = "stored"
     THEN /\ RuntimePut(t)
          /\ Continue(t, [t EXCEPT !.writes = @ + 1, !.pc = "trimKeys"])
     ELSE /\ UNCHANGED store
          /\ IF t.bg THEN Finish(t, t, NoResult)
             ELSE Continue(t, [t EXCEPT !.net = [kind |-> "response", resp |-> t.resp],
                                        !.pc = "rootFallback"])
  /\ UNCHANGED <<installed, nEvents, tc, rf, syncVars, eventVars>>

\* trimCache lines 357-364: the keys are read; the deletes are issued when
\* there are too many. An error inside trimCache is caught at line 367.
TrimKeys(t, s) ==
  /\ t.strategy = "static"
  /\ t.pc = "trimKeys"
  /\ LET keys == CacheKeys(store[RUNTIME_CACHE_NAME])
     IN IF s = "stored" /\ Len(keys) > MAX_ENTRIES
        THEN Continue(t, [t EXCEPT !.keys = TrimVictims(keys, MAX_ENTRIES),
                                   !.pc = "trimDelete"])
        ELSE Finish(t, [t EXCEPT !.net = [kind |-> "response", resp |-> t.resp]],
                    NetworkResult(t.resp))
  /\ UNCHANGED <<store, installed, nEvents, tc, rf, syncVars, eventVars>>

\* trimCache: the deletes complete or reject; fetchAndCache returns the response
TrimDelete(t, s) ==
  /\ t.strategy = "static"
  /\ t.pc = "trimDelete"
  /\ IF s = "stored"
     THEN store' = [store EXCEPT ![RUNTIME_CACHE_NAME] = DeleteAll(@, t.keys)]
     ELSE UNCHANGED store
  /\ Finish(t, [t EXCEPT !.net = [kind |-> "response", resp |-> t.resp]],
            NetworkResult(t.resp))
  /\ UNCHANGED <<installed, nEvents, tc, rf, syncVars, eventVars>>

\* cacheFirstWithUpdate line 277: return caches.match('/')
StaticRootFallback(t) ==
  /\ t.strategy = "static"
  /\ t.pc = "rootFallback"
  /\ Finish(t, [t EXCEPT !.lookups = @ + 1], MatchResult(store, U_ROOT))
  /\ UNCHANGED <<store, installed, nEvents, tc, rf, syncVars, eventVars>>

\* lines 420-443: the passthrough fetch settles
PassFetchSettles(t, o) ==
  /\ t.strategy = "pass"
  /\ t.pc = "fetch"
  /\ IF o.kind # "response"
     THEN Continue(t, [t EXCEPT !.pc = "fallback"])
     ELSE IF ~ResponseOk(o.resp.status)
          THEN Finish(t, [t EXCEPT !.net = o], NetworkResult(o.resp))
          ELSE RespondAndContinue(t, [t EXCEPT !.net = o], NetworkResult(o.resp),
                                  [t EXCEPT !.resp = o.resp, !.pc = "put"])
  /\ UNCHANGED <<store, installed, nEvents, tc, rf, syncVars, eventVars>>

\* lines 431-434: caches.open(...).then(cache => cache.put(...)), not awaited
PassPut(t, s) ==
  /\ t.strategy = "pass"
  /\ t.pc = "put"
  /\ IF s = "stored" THEN RuntimePut(t) ELSE UNCHANGED store
  /\ Finish(t, t, NoResult)
  /\ UNCHANGED <<installed, nEvents, tc, rf, syncVars, eventVars>>

\* line 442: return caches.match(request)
PassFallback(t) ==
  /\ t.strategy = "pass"
  /\ t.pc = "fallback"
  /\ Finish(t, [t EXCEPT !.lookups = @ + 1], MatchResult(store, t.req.url))
  /\ UNCHANGED <<store, installed, nEvents, tc, rf, syncVars, eventVars>>

\* lines 617-624: the fetch of a listed asset settles
PinFetchSettles(t, o) ==
  /\ t.strategy = "pin"
  /\ t.pc = "fetch"
  /\ IF o.kind = "response" /\ ResponseOk(o.resp.status)
     THEN Continue(t, [t EXCEPT !.resp = o.resp, !.pc = "put"])
     ELSE Finish(t, t, NoResult)
  /\ UNCHANGED <<store, installed, nEvents, tc, rf, syncVars, eventVars>>

\* lines 620-621: cache.put(assetUrl, response); a rejection is caught at
\* line 624
PinPut(t, s) ==
  /\ t.strategy = "pin"
  /\ t.pc = "put"
  /\ IF s = "stored" THEN RuntimePut(t) ELSE UNCHANGED store
  /\ Finish(t, t, NoResult)
  /\ UNCHANGED <<installed, nEvents, tc, rf, syncVars, eventVars>>

Next ==
  \/ Install
  \/ FetchEvent
  \/ PinAssets
  \/ \E t \in tasks : \E o \in NetOutcomes(t.req.url) : BypassSettles(t, o)
  \/ \E t \in tasks : \E o \in NetOutcomes(t.req.url) : NavFetchSettles(t, o)
  \/ \E t \in tasks : \E s \in StorageOutcomes : NavPut(t, s)
  \/ \E t \in tasks : NavFallbackOwn(t)
  \/ \E t \in tasks : NavFallbackRoot(t)
  \/ \E t \in tasks : StaticMatch(t)
  \/ \E t \in tasks : \E o \in NetOutcomes(t.req.url) : FacFetchSettles(t, o)
  \/ \E t \in tasks : \E s \in StorageOutcomes : FacPut(t, s)
  \/ \E t \in tasks : \E s \in StorageOutcomes : TrimKeys(t, s)
  \/ \E t \in tasks : \E s \in StorageOutcomes : TrimDelete(t, s)
  \/ \E t \in tasks : StaticRootFallback(t)
  \/ \E t \in tasks : \E o \in NetOutcomes(t.req.url) : PassFetchSettles(t, o)
  \/ \E t \in tasks : \E s \in StorageOutcomes : PassPut(t, s)
  \/ \E t \in tasks : PassFallback(t)
  \/ \E t \in tasks : \E o \in NetOutcomes(t.req.url) : PinFetchSettles(t, o)
  \/ \E t \in tasks : \E s \in StorageOutcomes : PinPut(t, s)

Spec == Init /\ [][Next]_vars


\* ------------------------------------------------------------------ SpecStatic
\* Fetch events for same-origin static assets only, so that fetchAndCache is
\* the only writer of the runtime store; every cache operation resolves, and
\* the handlers interleave freely at their awaits.

StaticRequests ==
  { MkReq(U_APPJS, "GET", "no-cors"), MkReq(U_MANIFEST, "GET", "no-cors") }

\* the runtime store an earlier fetchAndCache left behind
StaticRuntimes ==
  { <<>> } \cup { CachePut(<<>>, r.url, BasicOk, "static") : r \in StaticRequests }

StaticInit ==
  /\ \E served \in InstallServed : \E runtime \in StaticRuntimes :
       store = [EmptyStore EXCEPT ![CACHE_NAME] = AddAll(<<>>, CACHE_ASSETS, served),
                                  ![RUNTIME_CACHE_NAME] = runtime]
  /\ installed = TRUE
  /\ tasks = {}
  /\ nEvents = 0
  /\ responded = NoResponse
  /\ tc = TcIdle /\ rf = RetryIdle /\ SyncIdle
  /\ EventIdle

\* lines 373-417: a fetch event for a static asset enters cacheFirstWithUpdate
StaticFetchEvent ==
  /\ nEvents < MaxEvents
  /\ Cardinality(tasks) < MaxTasks
  /\ \E req \in StaticRequests :
       tasks' = tasks \cup { NewTask(FreeId, dispatch(req), "match", req) }
  /\ nEvents' = nEvents + 1
  /\ responded' = NoResponse
  /\ UNCHANGED <<store, installed, tc, rf, syncVars, eventVars>>

StaticNext ==
  \/ StaticFetchEvent
  \/ \E t \in tasks : StaticMatch(t)
  \/ \E t \in tasks : \E o \in NetOutcomes(t.req.url) : FacFetchSettles(t, o)
  \/ \E t \in tasks : FacPut(t, "stored")
  \/ \E t \in tasks : TrimKeys(t, "stored")
  \/ \E t \in tasks : TrimDelete(t, "stored")
  \/ \E t \in tasks : StaticRootFallback(t)

SpecStatic == StaticInit /\ [][StaticNext]_vars

\* ------------------------------------------------------------------ SpecPush
\* One push event. Its payload is absent, parses as an object, parses only
\* as text, or can be read neither way; each showNotification call resolves
\* or rejects.

PushInputs ==
  [title : { Undefined, Null, "T" },
   body : { Undefined, "B" },
   icon : { Undefined, "I" },
   badge : { Undefined, "G" },
   url : { Undefined, Null, "/spot" },
   id : { Undefined, "id7" },
   action : { Undefined, "extend" },
   tag : { Undefined, "t9" },
   actions : { NoActions, NullActions, MalformedActions, ActionList(<< "pay" >>) },
   data : { NoData,
            [present |-> TRUE, url |-> "/d", id |-> Undefined, action |-> Undefined],
            [present |-> TRUE, url |-> Null, id |-> "n1", action |-> "view"] }]

RAW_TEXT == "raw-text"

PushPayloads ==
  { [kind |-> "none", input |-> EmptyInput],
    [kind |-> "text", input |-> EmptyInput],
    [kind |-> "unreadable", input |-> EmptyInput] }
    \cup { [kind |-> "json", input |-> i] : i \in PushInputs }

\* lines 113-121: event.data ? event.data.json() : {}, and on a parse error
\* the default title with event.data.text() as body
parsePayload(payload) ==
  IF payload.kind = "json" THEN payload.input
  ELSE IF payload.kind = "text"
  THEN [EmptyInput EXCEPT !.title = DEFAULT_TITLE, !.body = RAW_TEXT]
  ELSE EmptyInput

\* the handler up to its first await: showNotification of the built
\* notification, or of the minimal one when text() threw inside the inner catch
pushStart(payload, generated) ==
  IF payload.kind = "unreadable"
  THEN [PushIdle EXCEPT !.pc = "showMinimal", !.kind = payload.kind]
  ELSE [PushIdle EXCEPT !.pc = "showRich", !.kind = payload.kind,
                        !.input = parsePayload(payload),
                        !.built = buildNotification(parsePayload(payload), generated)]

\* (a handler without the fallback notification)
pushSettleNoFallback(p, ok) ==
  IF ok
  THEN [p EXCEPT !.pc = "done", !.attempts = Append(@, [what |-> "rich", ok |-> TRUE]),
                 !.shown = Append(@, p.built)]
  ELSE [p EXCEPT !.pc = "done", !.attempts = Append(@, [what |-> "rich", ok |-> FALSE]),
                 !.rejected = TRUE]

\* the awaited showNotification settles (lines 157-170)
pushSettle(p, ok) ==
  IF p.pc = "showRich"
  THEN IF ok
       THEN [p EXCEPT !.pc = "done",
                      !.attempts = Append(@, [what |-> "rich", ok |-> TRUE]),
                      !.shown = Append(@, p.built)]
       ELSE [p EXCEPT !.pc = "showMinimal",
                      !.attempts = Append(@, [what |-> "rich", ok |-> FALSE])]
  ELSE IF ok
       THEN [p EXCEPT !.pc = "done",
                      !.attempts = Append(@, [what |-> "minimal", ok |-> TRUE]),
                      !.shown = Append(@, minimalNotification)]
       ELSE [p EXCEPT !.pc = "done",
                      !.attempts = Append(@, [what |-> "minimal", ok |-> FALSE])]

PushInit ==
  /\ store = EmptyStore /\ FetchIdle /\ tc = TcIdle /\ rf = RetryIdle /\ SyncIdle
  /\ EventIdle

PushEvent ==
  /\ push.pc = "idle"
  /\ \E payload \in PushPayloads : \E generated \in GeneratedIds :
       push' = pushStart(payload, generated)
  /\ UNCHANGED <<cacheVars, rf, syncVars, click, mq, act>>

PushShowSettles ==
  /\ push.pc \in { "showRich", "showMinimal" }
  /\ \E ok \in BOOLEAN :
       /\ (ok /\ push.pc = "showRich") => Showable(push.built)
       /\ push' = pushSettle(push, ok)
  /\ UNCHANGED <<cacheVars, rf, syncVars, click, mq, act>>

PushNext == PushEvent \/ PushShowSettles

SpecPush == PushInit /\ [][PushNext]_vars

\* ------------------------------------------------------------------ SpecClick
\* One notificationclick event. URLs are token sequences with "?" a token of
\* its own; the handler's steps are logged in order.

ORIGIN == << "https:", "/", "/", "parking.example" >>

W_SPOT == [id |-> "window1", url |-> ORIGIN \o << "/", "spot" >>]
W_HISTORY == [id |-> "window2", url |-> ORIGIN \o << "/", "history" >>]

\* what clients.matchAll can resolve with
ClientLists == { <<>>, << W_SPOT >>, << W_HISTORY >>, << W_HISTORY, W_SPOT >> }

ClickActions == { "", "view", "extend", "dismiss", "pay" }

\* event.notification.data: the url is absent or a path
ClickData ==
  [url : { Undefined, << "/", "spot" >>, << "/", "settings" >> },
   id : { Undefined, "id7" }]

\* lines 189-203
urlToOpenFor(action, data) ==
  LET base == IF data.url = Undefined THEN << "/" >> ELSE data.url
      id == IF data.id = Undefined THEN "" ELSE data.id
  IN IF action = "view"
     THEN base \o << "?", "notificationId=", "now", "&action=view&id=", id >>
     ELSE IF action = "extend"
     THEN base \o << "?", "action=extend&id=", id >>
     ELSE base

\* url.split('?')[0]
BeforeQuery(url) ==
  IF \E i \in 1..Len(url) : url[i] = "?"
  THEN SubSeq(url, 1, (CHOOSE i \in 1..Len(url) :
                         url[i] = "?" /\ \A j \in 1..(i - 1) : url[j] # "?") - 1)
  ELSE url

\* line 215
MatchesTarget(clientUrl, urlToOpen) ==
  clientUrl = urlToOpen \/ Includes(clientUrl, BeforeQuery(urlToOpen))

\* the first window of the list that matches, "" when none does
FirstMatch(clientList, urlToOpen) ==
  LET hits == { i \in 1..Len(clientList) : MatchesTarget(clientList[i].url, urlToOpen) }
  IN IF hits = {} THEN ""
     ELSE clientList[CHOOSE i \in hits : \A j \in hits : i <= j].id

Ev(what, to) == [ev |-> what, to |-> to]

\* (a listener that does not stop at 'dismiss')
clickStartNoDismiss(action, data) ==
  [ClickIdle EXCEPT !.pc = "matchAll", !.action = action, !.data = data,
                    !.urlToOpen = urlToOpenFor(action, data),
                    !.log = << Ev("close", "") >>]

\* lines 178-209: the listener up to its return or to clients.matchAll
clickStart(action, data) ==
  [ClickIdle EXCEPT !.pc = IF action = "dismiss" THEN "done" ELSE "matchAll",
                    !.action = action, !.data = data,
                    !.urlToOpen = urlToOpenFor(action, data),
                    !.log = << Ev("close", "") >>]

\* lines 238-244: the catch block opens '/' and does not wait for it
clickCatch(c) ==
  [c EXCEPT !.pc = "done", !.log = Append(@, Ev("openRoot", ""))]

ClickInit ==
  /\ store = EmptyStore /\ FetchIdle /\ tc = TcIdle /\ rf = RetryIdle /\ SyncIdle
  /\ EventIdle

ClickEvent ==
  /\ click.pc = "idle"
  /\ \E action \in ClickActions : \E data \in ClickData :
       click' = clickStart(action, data)
  /\ UNCHANGED <<cacheVars, rf, syncVars, push, mq, act>>

\* clients.matchAll settles (lines 211-226)
ClickMatchAllSettles ==
  /\ click.pc = "matchAll"
  /\ \/ \E clientList \in ClientLists :
          LET m == FirstMatch(clientList, click.urlToOpen)
          IN click' = [click EXCEPT !.clientList = clientList, !.target = m,
                                    !.pc = IF m = "" THEN "open" ELSE "focus",
                                    !.log = Append(@, Ev("matchAll", ""))]
     \/ click' = clickCatch([click EXCEPT !.log = Append(@, Ev("matchAllFailed", ""))])
  /\ UNCHANGED <<cacheVars, rf, syncVars, push, mq, act>>

\* client.focus() settles; the notice follows at once (lines 217-224)
ClickFocusSettles ==
  /\ click.pc = "focus"
  /\ \/ click' = [click EXCEPT !.pc = "done",
                                !.log = @ \o << Ev("focus", click.target),
                                               Ev("notice", click.target) >>]
     \/ click' = clickCatch([click EXCEPT !.log = Append(@, Ev("focusFailed", click.target))])
  /\ UNCHANGED <<cacheVars, rf, syncVars, push, mq, act>>

\* clients.openWindow(urlToOpen) settles with a client, with null, or rejects
\* (lines 227-237)
ClickOpenSettles ==
  /\ click.pc = "open"
  /\ \/ click' = [click EXCEPT !.pc = "timer", !.target = "newWindow",
                                !.log = @ \o << Ev("open", "newWindow"), Ev("delay", "") >>]
     \/ click' = [click EXCEPT !.pc = "done", !.log = Append(@, Ev("openNull", ""))]
     \/ click' = clickCatch([click EXCEPT !.log = Append(@, Ev("openFailed", ""))])
  /\ UNCHANGED <<cacheVars, rf, syncVars, push, mq, act>>

\* the setTimeout of 1000 ms fires (lines 230-236)
ClickTimerFires ==
  /\ click.pc = "timer"
  /\ click' = [click EXCEPT !.pc = "done",
                            !.log = @ \o << Ev("elapsed", ""), Ev("notice", "newWindow") >>]
  /\ UNCHANGED <<cacheVars, rf, syncVars, push, mq, act>>

ClickNext ==
  \/ ClickEvent
  \/ ClickMatchAllSettles
  \/ ClickFocusSettles
  \/ ClickOpenSettles
  \/ ClickTimerFires

SpecClick == ClickInit /\ [][ClickNext]_vars


\* ------------------------------------------------------------------ SpecActivate
\* One activate event over a cache storage that holds any of the worker's two
\* namespaces and of the namespaces earlier versions and other scripts of the
\* origin left behind.

STALE_CACHE_NAME == "parking-reminder-cache-v0"
STALE_RUNTIME_NAME == "parking-reminder-runtime-v0"
FOREIGN_CACHE_NAME == "offline-pages"

StorageNames ==
  CacheNames \cup { STALE_CACHE_NAME, STALE_RUNTIME_NAME, FOREIGN_CACHE_NAME }

NamespaceContents == { <<>>, AddAll(<<>>, CACHE_ASSETS, Range(CACHE_ASSETS)) }

\* line 72
cacheWhitelist == { CACHE_NAME, RUNTIME_CACHE_NAME }

\* (a filter that lets every name through)
staleNamesAll(cacheNames) == cacheNames

\* lines 78-79: the names caches.delete is called with
staleNames(cacheNames) == { n \in cacheNames : n \notin cacheWhitelist }

Without(f, n) == [k \in DOMAIN f \ { n } |-> f[k]]

\* the catch block of lines 98-101 ends the work
actCatch(a, why) == [a EXCEPT !.pc = "done", !.error = why]

\* line 91: `clients` resolves to the const of line 94, declared in the same
\* block; until line 94 has run the binding is uninitialized and reading it
\* throws a ReferenceError, which line 98 catches.  With the binding
\* initialized the call would go through.
claimClients(a) ==
  IF a.clients = Uninitialized
  THEN actCatch(a, "ReferenceError")
  ELSE [a EXCEPT !.claimed = TRUE, !.pc = "matchAll"]

ActInit ==
  /\ \E names \in SUBSET StorageNames : store \in [names -> NamespaceContents]
  /\ installed = TRUE
  /\ tasks = {}
  /\ nEvents = 0
  /\ responded = NoResponse
  /\ tc = TcIdle /\ rf = RetryIdle
  /\ SyncIdle
  /\ EventIdle

\* lines 68-77: the listener calls caches.keys() inside waitUntil
ActivateEvent ==
  /\ act.pc = "idle"
  /\ act' = [act EXCEPT !.pc = "keys", !.before = store]
  /\ UNCHANGED <<cacheVars, rf, syncVars, push, click, mq>>

\* lines 77-85: caches.keys() settles; every stale name gets its
\* caches.delete call before the handler awaits Promise.allSettled
ActKeysSettle(ok) ==
  /\ act.pc = "keys"
  /\ IF ok
     THEN act' = [act EXCEPT !.pc = "deleting", !.pending = staleNames(DOMAIN store)]
     ELSE act' = actCatch(act, "keys")
  /\ UNCHANGED <<cacheVars, rf, syncVars, push, click, mq>>

\* one caches.delete(cacheName) settles
ActDeleteSettles(n, ok) ==
  /\ act.pc = "deleting"
  /\ n \in act.pending
  /\ IF ok
     THEN /\ store' = Without(store, n)
          /\ act' = [act EXCEPT !.pending = @ \ { n }]
     ELSE /\ store' = store
          /\ act' = [act EXCEPT !.pending = @ \ { n }, !.rejected = @ \cup { n }]
  /\ UNCHANGED <<tc, fetchVars, rf, syncVars, push, click, mq>>

\* lines 85-91: Promise.allSettled resolves whatever the deletions did, and
\* the handler goes on to the claim
ActAllSettled ==
  /\ act.pc = "deleting"
  /\ act.pending = {}
  /\ act' = claimClients(act)
  /\ UNCHANGED <<cacheVars, rf, syncVars, push, click, mq>>

ActNext ==
  \/ ActivateEvent
  \/ \E ok \in BOOLEAN : ActKeysSettle(ok)
  \/ \E n \in StorageNames : \E ok \in BOOLEAN : ActDeleteSettles(n, ok)
  \/ ActAllSettled

SpecActivate ==
  ActInit /\ [][ActNext]_vars /\ WF_vars(ActNext)

\* ------------------------------------------------------------------ SpecMessage
\* The message listener: SYNC_NOW, GET_VERSION and CACHE_ASSETS messages from
\* client windows, the drains and asset fetches they start, and the replies
\* posted to event.source. A fetch that is awaited settles eventually (the
\* POST of retryFetch carries AbortSignal.timeout), timers fire, and a
\* resolved promise runs its then-callback.

MsgIds == 1..MaxEvents

\* the pending queue at the time the messages arrive
MsgQueues == { Absent, [kind |-> "json", items |-> << 1 >>] }

MsgInit ==
  /\ store = [EmptyStore EXCEPT ![CACHE_NAME] = AddAll(<<>>, CACHE_ASSETS, Range(CACHE_ASSETS))]
  /\ installed = TRUE
  /\ tasks = {}
  /\ nEvents = 0
  /\ responded = NoResponse
  /\ tc = TcIdle /\ rf = RetryIdle
  /\ storageAvailable \in BOOLEAN
  /\ queue \in MsgQueues
  /\ nItems = Len(queue.items)
  /\ drains = [d \in DrainIds |-> DrainIdle]
  /\ finished = NoFinished
  /\ accepted = {}
  /\ removed = {}
  /\ notices = [c \in Clients |-> 0]
  /\ EventIdle

\* the windows take turns posting: the n-th message comes from Sender(n)
Sender(n) == IF n % 2 = 1 THEN "window1" ELSE "window2"

\* what the POST of a drain started by a message is answered with
MsgOutcomes ==
  { o \in Outcomes : o.kind = "response" /\ o.status \in { 200, 503 } }

Received(type, source, d, replies) ==
  [type |-> type, source |-> source, d |-> d, replies |-> replies]

Reply(to, type, success, version) ==
  [to |-> to, type |-> type, success |-> success, version |-> version]

\* lines 597-605: syncParkingData() is called; its then-callback replies later
MsgSyncNow(c) ==
  /\ nEvents < MaxEvents
  /\ nEvents' = nEvents + 1
  /\ \E d \in DrainIds :
       /\ StartDrain(d)
       /\ mq' = Append(mq, Received("SYNC_NOW", c, d, <<>>))
  /\ UNCHANGED <<store, installed, tasks, responded, tc, rf, storageAvailable, queue,
                 nItems, accepted, removed, notices, push, click, act>>

\* (a reply that always reports success)
syncReplyAlwaysTrue(m, success) == Reply(m.source, "SYNC_RESPONSE", TRUE, "")

\* lines 600-604
syncReply(m, success) == Reply(m.source, "SYNC_RESPONSE", success, "")

\* the promise of syncParkingData has resolved: the then-callback posts the reply
MsgSyncReply(i) ==
  /\ i \in 1..Len(mq)
  /\ mq[i].type = "SYNC_NOW"
  /\ drains[mq[i].d].pc = "done"
  /\ mq[i].replies = <<>>
  /\ mq' = [mq EXCEPT ![i].replies =
               Append(@, syncReply(mq[i], drains[mq[i].d].result))]
  /\ finished' = NoFinished
  /\ UNCHANGED <<cacheVars, rf, storageAvailable, queue, nItems, drains, accepted,
                 removed, notices, push, click, act>>

\* lines 606-612: the reply is posted before the listener returns
MsgGetVersion(c) ==
  /\ nEvents < MaxEvents
  /\ nEvents' = nEvents + 1
  /\ mq' = Append(mq, Received("GET_VERSION", c, 0,
                                << Reply(c, "VERSION_RESPONSE", FALSE, CACHE_NAME) >>))
  /\ finished' = NoFinished
  /\ UNCHANGED <<store, installed, tasks, responded, tc, rf, storageAvailable, queue,
                 nItems, drains, accepted, removed, notices, push, click, act>>

\* lines 613-627: one fetch per listed URL, none awaited, no reply
MsgCacheAssets(c) ==
  /\ nEvents < MaxEvents
  /\ nEvents' = nEvents + 1
  /\ \E assets \in SUBSET PinUrls :
       /\ assets # {}
       /\ Cardinality(tasks) + Cardinality(assets) <= MaxTasks
       /\ tasks' = tasks \cup
            { [NewTask(FreeId, "pin", "fetch", MkReq(u, "GET", "cors"))
                 EXCEPT !.bg = TRUE] : u \in assets }
  /\ mq' = Append(mq, Received("CACHE_ASSETS", c, 0, <<>>))
  /\ responded' = NoResponse
  /\ finished' = NoFinished
  /\ UNCHANGED <<store, installed, tc, rf, storageAvailable, queue, nItems, drains,
                 accepted, removed, notices, push, click, act>>

DrainStep(d) ==
  \/ \E o \in MsgOutcomes : DrainFetchSettles(d, o)
  \/ DrainTimerFires(d)
  \/ DrainNotify(d)

MsgNext ==
  \/ MsgSyncNow(Sender(nEvents + 1))
  \/ MsgGetVersion(Sender(nEvents + 1))
  \/ MsgCacheAssets(Sender(nEvents + 1))
  \/ \E i \in MsgIds : MsgSyncReply(i)
  \/ \E d \in DrainIds : \E o \in MsgOutcomes : DrainFetchSettles(d, o)
  \/ \E d \in DrainIds : DrainTimerFires(d)
  \/ \E d \in DrainIds : DrainNotify(d)
  \/ \E t \in tasks : \E o \in NetOutcomes(t.req.url) : PinFetchSettles(t, o)
  \/ \E t \in tasks : \E s \in StorageOutcomes : PinPut(t, s)

SpecMessage ==
  /\ MsgInit
  /\ [][MsgNext]_vars
  /\ \A d \in DrainIds : WF_vars(DrainStep(d))
  /\ \A i \in MsgIds : WF_vars(MsgSyncReply(i))

\* ------------------------------------------------------------------ claims: trimCache

Min(a, b) == IF a < b THEN a ELSE b

\* C2: a single trimCache(name, maxEntries) on a store built by inserts of
\* distinct keys leaves min(count, maxEntries) entries, and they are the most
\* recently inserted keys in their original order; nothing is deleted when
\* count <= maxEntries.
C2_TrimKeepsNewest ==
  tc.done =>
    LET n == Len(tc.before)
        k == Min(n, tc.maxEntries)
        kept == CacheKeys(store[RUNTIME_CACHE_NAME])
    IN /\ Len(kept) = k
       /\ kept = SubSeq(tc.before, n - k + 1, n)
       /\ (n <= tc.maxEntries => kept = tc.before)

C2_Witness ==
  /\ tc.done
  /\ tc.maxEntries >= 1
  /\ Len(tc.before) >= tc.maxEntries + 2
  /\ Len(store[RUNTIME_CACHE_NAME]) = tc.maxEntries

\* ------------------------------------------------------------------ claims: retryFetch

FailsRetryably(o) ==
  IF o.kind = "response"
  THEN ~ResponseOk(o.status) /\ (o.status >= 500 \/ o.status = 408)
  ELSE isRetryableThrown(o.err)

FailsTerminally(o) ==
  IF o.kind = "response"
  THEN o.status >= 400 /\ o.status <= 499 /\ o.status # 408
  ELSE ~isRetryableThrown(o.err)

AllOutcomes(r, P(_)) == \A i \in 1..Len(r.outcomes) : P(r.outcomes[i])

C7_TerminalFailureStops ==
  (Len(rf.outcomes) >= 1 /\ FailsTerminally(rf.outcomes[1])) =>
    /\ NumCalls(rf) = 1
    /\ rf.pc = "done"
    /\ rf.result = FALSE

\* ------------------------------------------------------------------ claims: syncParkingData

IsPrefix(p, q) == Len(p) <= Len(q) /\ SubSeq(q, 1, Len(p)) = p

Succeeds(o) == o.kind = "response" /\ ResponseOk(o.status)

SingleTrigger == \A e \in DrainIds : e # 1 => drains[e].pc = "idle"

FailsTwiceThenSucceeds(D) ==
  /\ Len(D.r.outcomes) = 3
  /\ FailsRetryably(D.r.outcomes[1])
  /\ FailsRetryably(D.r.outcomes[2])
  /\ Succeeds(D.r.outcomes[3])

NoNotice == \A c \in Clients : notices[c] = 0

\* C8: for a single sync trigger on a non-empty queue: while calls are
\* outstanding the coordinator has removed nothing, the queue still starts
\* with the batch it read and no notice is posted; if the endpoint fails
\* retryably twice and succeeds on the third call, the batch is then gone
\* from the queue and, when the drain returns, it returns true and every
\* client has been sent one SYNC_COMPLETED; if every call fails, the drain
\* returns false, the queue still starts with the original batch, nothing
\* was removed and no notice was posted.
C8_SingleDrain ==
  LET D == drains[1]
      F == finished.drain
  IN SingleTrigger =>
       /\ D.pc = "retry" =>
            removed = {} /\ IsPrefix(D.batch, queue.items) /\ NoNotice
       /\ (D.pc = "notify" /\ FailsTwiceThenSucceeds(D)) =>
            /\ Range(D.batch) \cap Range(queue.items) = {}
            /\ Range(D.batch) \subseteq removed
       /\ (finished.valid /\ FailsTwiceThenSucceeds(F)) =>
            /\ F.result
            /\ Range(F.batch) \cap Range(queue.items) = {}
            /\ Range(F.batch) \subseteq removed
            /\ \A c \in Clients : notices[c] = 1
       /\ (/\ finished.valid
           /\ F.batch # <<>>
           /\ \A i \in 1..Len(F.r.outcomes) : ~Succeeds(F.r.outcomes[i])) =>
            /\ ~F.result
            /\ removed = {}
            /\ IsPrefix(F.batch, queue.items)
            /\ NoNotice

C8_Witness ==
  /\ SingleTrigger
  /\ finished.valid
  /\ Len(finished.drain.batch) = 2
  /\ FailsTwiceThenSucceeds(finished.drain)
  /\ queue = Absent
  /\ \A c \in Clients : notices[c] = 1

\* C9: every item removed from the pending queue was in a batch the remote
\* endpoint accepted (2xx), also when the client application appends items
\* while a drain is in progress.
C9_RemovedWereAccepted == removed \subseteq accepted

\* ------------------------------------------------------------------ claims: fetch handlers

RuntimeEntries == Range(store[RUNTIME_CACHE_NAME])

AllEntries == Range(store[CACHE_NAME]) \cup RuntimeEntries

\* C1: after any sequence of fetch events and pin-assets messages, once every
\* handler and background task has finished, the runtime store holds at most
\* MAX_ENTRIES entries.
C1_RuntimeBounded ==
  tasks = {} => Len(store[RUNTIME_CACHE_NAME]) <= MAX_ENTRIES

NonGetOrSensitive(req) == req.method # "GET" \/ isSensitiveRequest(req)

\* C3: a fetch event whose request is not a GET or is sensitive is answered
\* without any cache lookup or cache write: its handler only ever waits for
\* its network fetch and leaves no work behind; it answers with the network
\* response when the fetch resolves and with a plain-text 503 when it
\* rejects, never with a rejection or an absent response.
C3_BypassNeverTouchesCache ==
  /\ \A t \in tasks :
       (t.strategy # "pin" /\ NonGetOrSensitive(t.req)) =>
         t.pc = "fetch" /\ ~t.bg /\ t.lookups = 0 /\ t.writes = 0
  /\ (responded.valid /\ NonGetOrSensitive(responded.req)) =>
       /\ responded.lookups = 0
       /\ responded.writes = 0
       /\ IF responded.net.kind = "response"
          THEN responded.result = NetworkResult(responded.net.resp)
          ELSE /\ responded.result.kind = "synthetic"
               /\ responded.result.resp.status = 503
               /\ responded.result.body \in
                    { "network-request-failed", "sensitive-request-failed" }

C3_Witness ==
  /\ responded.valid
  /\ responded.req.method = "GET"
  /\ isSensitiveRequest(responded.req)
  /\ responded.req.mode = "navigate"
  /\ responded.net.kind = "fail"
  /\ responded.result.kind = "synthetic"
  /\ store[CACHE_NAME] # <<>>

\* C4: in every reachable state neither the precache store nor the runtime
\* store holds an entry whose key is a sensitive request.
C4_NoSensitiveKey == \A e \in AllEntries : ~isSensitiveUrl(e.url)

\* C5: every entry written to the runtime store by the cache-first,
\* network-first or passthrough strategy holds a response with a success
\* status and of the "basic" type, for a request that is not sensitive.
C5_OnlyValidResponsesStored ==
  \A e \in RuntimeEntries :
    e.by \in { "static", "nav", "pass" } =>
      /\ ResponseOk(e.resp.status)
      /\ e.resp.type = "basic"
      /\ ~isSensitiveUrl(e.url)

\* C10: a navigation handled while the network is unreachable or timed out,
\* with no cache entry for the request, yields the cached root page if there
\* is one and otherwise a 503 response with the offline body; never an
\* absent response.
C10_NavigationOffline ==
  (/\ responded.valid
   /\ responded.strategy = "nav"
   /\ responded.net.kind = "fail"
   /\ responded.lookups = 2) =>
    /\ responded.result.kind # "undefined"
    /\ IF cachesMatch(store, U_ROOT).hit
       THEN responded.result = CachedResult(cachesMatch(store, U_ROOT).resp, U_ROOT)
       ELSE responded.result.resp.status = 503

\* ------------------------------------------------------------------ claims: cache-first refresh

\* the entry caches.match(url) answers from
MatchedEntries(st, url) ==
  LET in(name) == { e \in Range(st[name]) : e.url = url }
  IN IF in(CACHE_NAME) # {} THEN in(CACHE_NAME) ELSE in(RUNTIME_CACHE_NAME)

\* a static-asset handler has just answered from the cache
AnsweredFromCache ==
  /\ responded.valid
  /\ responded.strategy = "static"
  /\ responded.result.kind = "cache"
  /\ responded.result.from = responded.req.url

C11_HitState ==
  AnsweredFromCache =>
    /\ responded.result =
         CachedResult(cachesMatch(store, responded.req.url).resp, responded.req.url)
    /\ responded.net = NoNet
    /\ Cardinality({ t \in tasks : /\ t.id = responded.id
                                   /\ t.req = responded.req
                                   /\ t.strategy = "static"
                                   /\ t.bg
                                   /\ t.pc = "facFetch" }) = 1

C11_RefreshStep ==
  \A t \in tasks :
    (t.strategy = "static" /\ t.bg /\ t \notin tasks') =>
      /\ ~(responded'.valid /\ responded'.id = t.id)
      /\ (t.pc = "facPut" /\ store' # store) =>
           MatchedEntries(store', t.req.url) =
             { [url |-> t.req.url, resp |-> t.resp, by |-> "static"] }

\* C11: a static-asset handler that finds a cache entry answers with it
\* without waiting for the network and leaves exactly one background
\* re-fetch of the same request behind; whatever that re-fetch does, it
\* settles no response of its own; and when it stores a valid response, the
\* entry the request is answered from is the refreshed one.
C11_CacheFirstRefresh == []C11_HitState /\ [][C11_RefreshStep]_vars

\* ------------------------------------------------------------------ claims: storage failures

\* the network fetch of the handler that just answered resolved with a
\* response its strategy accepts for caching
NetworkGaveValidResponse ==
  /\ responded.valid
  /\ responded.net.kind = "response"
  /\ \/ responded.strategy = "nav" /\ ResponseOk(responded.net.resp.status)
     \/ responded.strategy = "static" /\ facValid(responded.net.resp)

\* C12: whenever the network fetch succeeded with a valid response, the
\* cache-first (miss path) and network-first strategies answer with that
\* network response, also when writing it to the runtime store fails.
C12_StorageFailureSwallowed ==
  NetworkGaveValidResponse =>
    responded.result = NetworkResult(responded.net.resp)

\* ------------------------------------------------------------------ claims: event lifetime

\* The lifetime of a fetch event ends when the promise given to respondWith
\* settles; the message listener calls neither waitUntil nor respondWith, so
\* the lifetime of a message event ends when the listener returns. A task
\* with bg = TRUE is work that is still running after that.
OutlivesItsEvent(t) == t.bg

\* C13: no event's lifetime ends while work started for it is outstanding:
\* no background refresh or trim, no passthrough cache write and no
\* pin-assets fetch or put is still running after its event has ended.
C13_LifetimeCoversWork == \A t \in tasks : ~OutlivesItsEvent(t)

\* ------------------------------------------------------------------ claims: push

NotificationFields(n) ==
  { n.title, n.body, n.icon, n.badge, n.tag, n.actions.kind,
    n.data.url, n.data.id, n.data.action }

\* what an empty input builds, the generated identifier aside
DefaultNotification(generated) ==
  [title |-> DEFAULT_TITLE, body |-> DEFAULT_BODY, icon |-> DEFAULT_ICON,
   badge |-> DEFAULT_ICON,
   data |-> [url |-> "/", timestamp |-> "now", id |-> generated, action |-> "default"],
   actions |-> ActionList(<< "view", "extend", "dismiss" >>),
   tag |-> "parking-reminder"]

OnlyTitleGiven(input) ==
  /\ input.title \notin { Undefined, Null }
  /\ [input EXCEPT !.title = Undefined] = EmptyInput

PushBuilt == push.pc # "idle" /\ push.kind \in { "none", "json" }

\* C14: the notification built on a push merges the parsed input over the
\* defaults field by field: an empty input gives the default title, body,
\* icon, badge, tag 'parking-reminder' and the three actions view, extend,
\* dismiss (with a generated id); an input carrying only a title gives the
\* same but for the title; and for every input none of title, body, icon,
\* badge, tag, actions, data.url, data.id, data.action is undefined.
C14_MergeOverDefaults ==
  PushBuilt =>
    /\ push.input = EmptyInput =>
         \E g \in GeneratedIds : push.built = DefaultNotification(g)
    /\ OnlyTitleGiven(push.input) =>
         \E g \in GeneratedIds :
           push.built = [DefaultNotification(g) EXCEPT !.title = push.input.title]
    /\ Undefined \notin NotificationFields(push.built)

C14_Witness ==
  /\ push.pc = "done"
  /\ push.kind = "json"
  /\ OnlyTitleGiven(push.input)
  /\ push.shown = << [DefaultNotification("rnd-2") EXCEPT !.title = "T"] >>

\* C15: whatever the payload, the push handler never rejects; it ends with
\* a notification displayed unless its last showNotification call, that of
\* the minimal notification, itself failed; a payload that parses only as
\* text is shown with the raw text as body; and every failure to build or
\* show the rich notification is followed by an attempt to show the minimal
\* one.
C15_PushAlwaysNotifies ==
  /\ ~push.rejected
  /\ push.pc = "done" =>
       /\ \/ Len(push.shown) = 1
          \/ /\ push.shown = <<>>
             /\ push.attempts[Len(push.attempts)] = [what |-> "minimal", ok |-> FALSE]
       /\ (push.kind = "text" /\ push.attempts[1].ok) =>
            /\ push.shown[1].body = RAW_TEXT
            /\ push.shown[1].title = DEFAULT_TITLE
       /\ (push.kind = "unreadable" \/ ~push.attempts[1].ok) =>
            \E i \in 1..Len(push.attempts) : push.attempts[i].what = "minimal"
       /\ \A i \in 1..Len(push.shown) :
            push.shown[i] \in { push.built, minimalNotification }

C15_Witness ==
  /\ push.pc = "done"
  /\ push.kind = "json"
  /\ push.input.actions = MalformedActions
  /\ push.attempts = << [what |-> "rich", ok |-> FALSE], [what |-> "minimal", ok |-> TRUE] >>
  /\ push.shown = << minimalNotification >>

\* ------------------------------------------------------------------ claims: notificationclick

LogOf(what) == { i \in 1..Len(click.log) : click.log[i].ev = what }

\* positions of the log at which a window was opened
WindowsOpened == LogOf("open") \cup LogOf("openRoot")

Noticed(to) == { i \in LogOf("notice") : click.log[i].to = to }

\* C16: a click with action 'dismiss' closes the notification and focuses
\* no window, opens none and sends no notice. With any other action, once
\* the window list is known: if a window matches the target and its focus
\* succeeds, that window is focused, is sent exactly one notice and no
\* window is opened; if none matches and openWindow yields a window, exactly
\* one window is opened and the only notice goes to it, after the delay has
\* elapsed.
C16_ClickRouting ==
  /\ click.pc # "idle" => click.log[1] = Ev("close", "")
  /\ click.action = "dismiss" =>
       click.pc \in { "idle", "done" } /\ click.log = << Ev("close", "") >>
  /\ (click.pc = "done" /\ LogOf("focus") # {}) =>
       /\ click.target = FirstMatch(click.clientList, click.urlToOpen)
       /\ click.log = << Ev("close", ""), Ev("matchAll", ""),
                         Ev("focus", click.target), Ev("notice", click.target) >>
  /\ (LogOf("matchAll") # {} /\ FirstMatch(click.clientList, click.urlToOpen) # "") =>
       LogOf("open") = {} /\ Noticed("newWindow") = {}
  /\ LogOf("open") # {} =>
       /\ FirstMatch(click.clientList, click.urlToOpen) = ""
       /\ Cardinality(WindowsOpened) = 1
       /\ click.pc = "timer" => LogOf("notice") = {}
       /\ click.pc = "done" =>
            click.log = << Ev("close", ""), Ev("matchAll", ""), Ev("open", "newWindow"),
                          Ev("delay", ""), Ev("elapsed", ""), Ev("notice", "newWindow") >>

C16_Witness ==
  /\ click.pc = "done"
  /\ click.action = "view"
  /\ click.clientList = << W_HISTORY, W_SPOT >>
  /\ click.target = "window1"
  /\ Noticed("window1") # {}

\* ------------------------------------------------------------------ claims: messages

IsMsg(i, type) == i <= Len(mq) /\ mq[i].type = type

\* every reply goes to the sender of its message and says what it should
C17_Replies ==
  \A i \in 1..Len(mq) :
    LET m == mq[i]
    IN /\ Len(m.replies) <= 1
       /\ m.type = "CACHE_ASSETS" => m.replies = <<>>
       /\ m.type = "GET_VERSION" =>
            m.replies = << Reply(m.source, "VERSION_RESPONSE", FALSE, CACHE_NAME) >>
       /\ (m.type = "SYNC_NOW" /\ m.replies # <<>>) =>
            /\ drains[m.d].pc = "done"
            /\ m.replies = << Reply(m.source, "SYNC_RESPONSE", drains[m.d].result, "") >>

\* an asset fetch that ends, in failure or not, takes no other asset fetch
\* with it, and a put that succeeds leaves the asset in the runtime store
C17_AssetsIndependent ==
  \A t \in tasks :
    (t.strategy = "pin" /\ t \notin tasks') =>
      /\ tasks \ {t} \subseteq tasks'
      /\ (t.pc = "put" /\ store' # store) =>
           \E e \in Range(store'[RUNTIME_CACHE_NAME]) :
             e.url = t.req.url /\ e.resp = t.resp

Replied(i) == Len(mq[i].replies) = 1

ActivationDone == act.pc = "done"

\* C18: when the activate work is over and the namespaces could be listed,
\* the precache and runtime namespaces that existed before the event still
\* exist with the contents they had, and every other namespace that existed
\* before it is gone unless its own deletion was rejected.
C18_ActivateCleansStale ==
  (ActivationDone /\ act.error # "keys") =>
    \A n \in DOMAIN act.before :
      /\ n \in cacheWhitelist => n \in DOMAIN store /\ store[n] = act.before[n]
      /\ (n \notin cacheWhitelist /\ n \notin act.rejected) => n \notin DOMAIN store

C18_Witness ==
  /\ ActivationDone
  /\ DOMAIN act.before = StorageNames
  /\ act.before[CACHE_NAME] # <<>>
  /\ act.rejected = { STALE_RUNTIME_NAME }
  /\ DOMAIN store = cacheWhitelist \cup { STALE_RUNTIME_NAME }

NoOperationFailed == act.error # "keys" /\ act.rejected = {}

\* C19: an activate event in which no external operation failed ends with
\* the clients claimed and SW_UPDATED posted to every connected window.
C19_ClaimsAndNotifies ==
  (ActivationDone /\ NoOperationFailed) => (act.claimed /\ act.updated = Clients)

ReportedSuccess == finished.valid /\ finished.drain.result

\* C20: a call of syncParkingData returns true only if the stored queue was
\* empty when the call read it or the batch it sent was accepted by the
\* endpoint; a stored text that cannot be read or parsed never yields true
\* while items are queued.
C20_SuccessOnlyWhenSynced ==
  ReportedSuccess =>
    IF finished.drain.batch = <<>>
    THEN queue.kind # "corrupt" /\ queue.items = <<>>
    ELSE Range(finished.drain.batch) \subseteq accepted

\* the calls of syncParkingData that have read a batch and not yet returned
Draining == { d \in DrainIds : drains[d].pc \in { "retry", "notify" } }

\* C21: at most one drain is in progress at any time, so no two drains that
\* overlap hold a batch with an item in common.
C21_OneDrainAtATime ==
  /\ Cardinality(Draining) <= 1
  /\ \A d, e \in Draining :
       d # e => Range(drains[d].batch) \cap Range(drains[e].batch) = {}

\* the keys of the maxEntries entries written last
RecentKeys(entries, maxEntries) ==
  { entries[i].url : i \in { j \in 1..Len(entries) : j > Len(entries) - maxEntries } }

\* the deletes of a trimCache call go through
TrimDeletes(t) == t \in tasks /\ t.pc = "trimDelete" /\ t \notin tasks'

\* no entry among the MAX_ENTRIES written last is deleted
C22_SparesRecent ==
  \A t \in tasks :
    TrimDeletes(t) =>
      \A u \in RecentKeys(store[RUNTIME_CACHE_NAME], MAX_ENTRIES) :
        CacheHas(store'[RUNTIME_CACHE_NAME], u)

\* a trimCache call that found more than MAX_ENTRIES keys and is the last
\* handler to finish leaves MAX_ENTRIES entries
C22_FinalCount ==
  \A t \in tasks :
    (TrimDeletes(t) /\ tasks' = {}) => Len(store'[RUNTIME_CACHE_NAME]) = MAX_ENTRIES

\* C22: under any interleaving of fetch handlers that write through
\* fetchAndCache, trimCache never deletes an entry that is among the
\* MAX_ENTRIES most recently written ones at the moment of the delete, and
\* when all handlers have finished the store holds min(number of distinct
\* keys written, MAX_ENTRIES) entries.
C22_ConcurrentTrim == [][C22_SparesRecent /\ C22_FinalCount]_vars

=============================================================================
